---- MODULE Spec2Model ----
(***************************************************************************)
(* Incremental sliding-window aggregation of daily revenue                 *)
(* (models/metrics/agg_daily_revenue_py_v3.py, with the from_date variant  *)
(* models/metrics/agg_daily_revenue_py_v2.py).                             *)
(*                                                                         *)
(* Dates are day numbers: d stands for 2024-01-d, so 2024-01-20 is 20 and  *)
(* date(1900, 1, 1) is -45289.  Revenue is counted in whole units.         *)
(* An optional value (Python None or a value) is a set with at most one    *)
(* element.  A DataFrame is a sequence of row records.  The upstream       *)
(* relation is a table: a multiset of rows, here a function from rows to   *)
(* the number of copies.                                                   *)
(***************************************************************************)
EXTENDS Integers, Sequences, FiniteSets, TLC

VARIABLES source, store, store_exists, pc, run, agg, other, dl

vars == <<source, store, store_exists, pc, run, agg, other, dl>>

(***************************************************************************)
(* Bounds and input domains                                                *)
(***************************************************************************)
MaxEvents == 3

Dates == {6, 19, 20}

\* The order lines that arrive: lines of order 1 (buyer 1) carry revenue 1,
\* lines of order 2 (buyer 2) carry revenue 2.
OrderLines == {[revenue |-> 1, order_id |-> 1, buyer_id |-> 1],
               [revenue |-> 2, order_id |-> 2, buyer_id |-> 2]}

Events == {[order_date |-> d, revenue |-> l.revenue,
            order_id |-> l.order_id, buyer_id |-> l.buyer_id] :
                d \in Dates, l \in OrderLines}

\* reprocess_window_days as configured: absent, or an integer (the code
\* accepts any integer, negative ones included).
WindowConfigs == {{}, {0 - 1}, {0}, {1}}

\* from_date as configured: absent or a date.
FromDateConfigs == {{}, {19}}

(***************************************************************************)
(* Program constants                                                       *)
(***************************************************************************)
DefaultReprocessWindowDays == 14
BatchSize == 100000
Date1900 == 0 - 45289

(***************************************************************************)
(* DataFrame helpers                                                       *)
(***************************************************************************)
None == {}

Some(x) == {x}

Val(opt) == CHOOSE x \in opt : TRUE

Range(s) == {s[i] : i \in 1..Len(s)}

Max(S) == CHOOSE x \in S : \A y \in S : y <= x

RECURSIVE SumRevenue(_)
\* Series.sum() / the "sum" aggregation over the revenue column
SumRevenue(df) ==
    IF df = <<>> THEN 0 ELSE Head(df).revenue + SumRevenue(Tail(df))

\* "nunique" aggregation
NUniqueOrders(df) == Cardinality({df[i].order_id : i \in 1..Len(df)})

NUniqueBuyers(df) == Cardinality({df[i].buyer_id : i \in 1..Len(df)})

RECURSIVE SetToSortedSeq(_)
\* the rows of a keyed table listed in ascending date order
SetToSortedSeq(S) ==
    IF S = {} THEN <<>>
    ELSE LET r == CHOOSE x \in S : \A y \in S : x.order_date <= y.order_date
         IN <<r>> \o SetToSortedSeq(S \ {r})

RECURSIVE InsertByDate(_, _)
InsertByDate(r, sorted) ==
    IF sorted = <<>> THEN <<r>>
    ELSE IF r.order_date < Head(sorted).order_date THEN <<r>> \o sorted
    ELSE <<Head(sorted)>> \o InsertByDate(r, Tail(sorted))

\* Variant: the frame is left in the order it has.
SortValuesNone(df) == df

RECURSIVE SortValues(_)
\* DataFrame.sort_values("order_date"): ascending, equal keys keep their order
SortValues(df) ==
    IF df = <<>> THEN <<>>
    ELSE LET n == Len(df)
         IN InsertByDate(df[n], SortValues(SubSeq(df, 1, n - 1)))

RECURSIVE CumSum(_, _)
\* Series.cumsum() over daily_revenue, written into running_revenue
CumSum(df, acc) ==
    IF df = <<>> THEN <<>>
    ELSE LET h == Head(df)
             t == acc + h.daily_revenue
         IN <<[order_date |-> h.order_date, daily_revenue |-> h.daily_revenue,
               daily_orders |-> h.daily_orders, daily_buyers |-> h.daily_buyers,
               running_revenue |-> t]>> \o CumSum(Tail(df), t)

\* Variant: running_revenue is the row's own daily_revenue, not accumulated.
WithRunningRevenueReset(df) ==
    [i \in 1..Len(df) |->
        [order_date |-> df[i].order_date, daily_revenue |-> df[i].daily_revenue,
         daily_orders |-> df[i].daily_orders, daily_buyers |-> df[i].daily_buyers,
         running_revenue |-> df[i].daily_revenue]]

WithRunningRevenue(df) == CumSum(df, 0)

\* Variant: the selection of the carried columns leaves daily_buyers out.
DailyColumnsNoBuyers(r) ==
    [order_date |-> r.order_date, daily_revenue |-> r.daily_revenue,
     daily_orders |-> r.daily_orders, daily_buyers |-> 0]

\* df[["order_date", "daily_revenue", "daily_orders", "daily_buyers"]]
DailyColumns(r) ==
    [order_date |-> r.order_date, daily_revenue |-> r.daily_revenue,
     daily_orders |-> r.daily_orders, daily_buyers |-> r.daily_buyers]

EmptyRelation == [e \in Events |-> 0]

RelationSize(rel) ==
    LET RECURSIVE Count(_)
        Count(S) == IF S = {} THEN 0
                    ELSE LET e == CHOOSE x \in S : TRUE
                         IN rel[e] + Count(S \ {e})
    IN Count(Events)

RECURSIVE Scan(_)
\* the rows of a relation as a scan returns them
Scan(rel) ==
    IF \A e \in Events : rel[e] = 0 THEN <<>>
    ELSE LET e == CHOOSE x \in Events : rel[x] > 0
         IN <<e>> \o Scan([rel EXCEPT ![e] = @ - 1])

RECURSIVE Chunks(_, _)
Chunks(rows, n) ==
    IF rows = <<>> THEN <<>>
    ELSE IF Len(rows) <= n THEN <<rows>>
    ELSE <<SubSeq(rows, 1, n)>> \o Chunks(SubSeq(rows, n + 1, Len(rows)), n)

\* orders_relation.record_batch(n): the rows in chunks of at most n rows
RecordBatches(rel, n) == Chunks(Scan(rel), n)

RECURSIVE Concat(_)
\* pd.concat(dfs, ignore_index=True)
Concat(dfs) == IF dfs = <<>> THEN <<>> ELSE Head(dfs) \o Concat(Tail(dfs))

\* Variant: the rows are grouped by date and order instead of by date.
GroupByDateAndOrder(df) ==
    LET keys == {<<df[i].order_date, df[i].order_id>> : i \in 1..Len(df)}
        Row(k) ==
            LET g == SelectSeq(df, LAMBDA e : e.order_date = k[1] /\ e.order_id = k[2])
            IN [order_date |-> k[1], daily_revenue |-> SumRevenue(g),
                daily_orders |-> NUniqueOrders(g), daily_buyers |-> NUniqueBuyers(g)]
    IN SetToSortedSeq({Row(k) : k \in keys})

\* Variant: orders and buyers are counted per row ("count" for "nunique").
GroupByDateCountRows(df) ==
    LET keys == {df[i].order_date : i \in 1..Len(df)}
        Row(d) ==
            LET g == SelectSeq(df, LAMBDA e : e.order_date = d)
            IN [order_date |-> d, daily_revenue |-> SumRevenue(g),
                daily_orders |-> Len(g), daily_buyers |-> Len(g)]
    IN SetToSortedSeq({Row(d) : d \in keys})

\* combined_df.groupby("order_date").agg(sum, nunique, nunique).reset_index():
\* one row per date present, keys in ascending order
GroupByDate(df) ==
    LET keys == {df[i].order_date : i \in 1..Len(df)}
        Row(d) ==
            LET g == SelectSeq(df, LAMBDA e : e.order_date = d)
            IN [order_date |-> d, daily_revenue |-> SumRevenue(g),
                daily_orders |-> NUniqueOrders(g), daily_buyers |-> NUniqueBuyers(g)]
    IN SetToSortedSeq({Row(d) : d \in keys})

(***************************************************************************)
(* The v3 model: agg_daily_revenue_py_v3.model                             *)
(***************************************************************************)
\* dbt.config.get("reprocess_window_days", 14)
ReprocessWindowDays(window_cfg) ==
    IF window_cfg = None THEN DefaultReprocessWindowDays ELSE Val(window_cfg)

\* Variant: rows dated reprocess_from_date itself are filtered out.
InWindowStrict(df, reprocess_from_date) ==
    SelectSeq(df, LAMBDA e : e.order_date > reprocess_from_date)

\* Variant: the batches are aggregated without the date filter.
InWindowAll(df, reprocess_from_date) == df

\* df[df["order_date"] >= pd.Timestamp(reprocess_from_date)]
InWindow(df, reprocess_from_date) ==
    SelectSeq(df, LAMBDA e : e.order_date >= reprocess_from_date)

\* Variant: only the first batch of the reader is taken.
FilteredBatchesFirstOnly(batches, reprocess_from_date) ==
    IF batches = <<>> THEN <<>>
    ELSE LET df == InWindow(Head(batches), reprocess_from_date)
         IN IF Len(df) > 0 THEN <<df>> ELSE <<>>

RECURSIVE FilteredBatches(_, _)
\* the loop over batch_reader: every batch filtered, empty ones dropped
FilteredBatches(batches, reprocess_from_date) ==
    IF batches = <<>> THEN <<>>
    ELSE LET df == InWindow(Head(batches), reprocess_from_date)
             rest == FilteredBatches(Tail(batches), reprocess_from_date)
         IN IF Len(df) > 0 THEN <<df>> \o rest ELSE rest

\* Variant: when no row passes the filter the generator yields a batch with a
\* zero row for reprocess_from_date.
AggregateZeroFill(batches, reprocess_from_date) ==
    LET all_dfs == FilteredBatches(batches, reprocess_from_date)
    IN IF all_dfs # <<>> THEN <<GroupByDate(Concat(all_dfs))>>
       ELSE <<<<[order_date |-> reprocess_from_date, daily_revenue |-> 0,
                 daily_orders |-> 0, daily_buyers |-> 0]>>>>

\* The generator aggregate_daily_revenue_incremental_pyarrow: the sequence of
\* the batches it yields (none when no row passes the filter, else one).
AggregateDailyRevenueIncrementalPyarrow(batches, reprocess_from_date) ==
    LET all_dfs == FilteredBatches(batches, reprocess_from_date)
    IN IF all_dfs # <<>> THEN <<GroupByDate(Concat(all_dfs))>> ELSE <<>>

\* next(new_agg_iter, None) and the conversion to new_agg_df
NewAggDf(new_agg_iter) ==
    IF new_agg_iter # <<>> THEN Head(new_agg_iter) ELSE <<>>

\* existing_table.to_df(): the rows of the table (it is keyed by order_date)
ToDf(table) == SetToSortedSeq(table)

\* Variant: the earliest stored date is read instead of the latest.
ReadMaxDateEarliest(table, raises) ==
    IF raises THEN None
    ELSE LET max_date_df == ToDf(table)
         IN IF max_date_df # <<>> THEN Some(Head(max_date_df).order_date) ELSE None

\* The try block that reads the maximum persisted date; a read that raises
\* leaves max_date = None.
ReadMaxDate(table, raises) ==
    IF raises THEN None
    ELSE LET max_date_df == ToDf(table)
         IN IF max_date_df # <<>>
            THEN Some(Max({max_date_df[i].order_date : i \in 1..Len(max_date_df)}))
            ELSE None

\* Variant: the lookback is added to the latest date instead of subtracted.
ReprocessFromForward(max_date, reprocess_window_days) ==
    IF max_date # None THEN Val(max_date) + reprocess_window_days ELSE Date1900

\* Variant: with no stored date the window starts a default lookback before
\* the latest calendar date instead of in the far past.
ReprocessFromRecent(max_date, reprocess_window_days) ==
    IF max_date # None THEN Val(max_date) - reprocess_window_days
    ELSE Max(Dates) - DefaultReprocessWindowDays

\* if max_date: max_date - timedelta(days=reprocess_window_days)
\* else: date(1900, 1, 1)
ReprocessFrom(max_date, reprocess_window_days) ==
    IF max_date # None THEN Val(max_date) - reprocess_window_days ELSE Date1900

\* Variant: the boundary date itself counts as older than the window.
OlderThanWindowInclusive(order_date, reprocess_from) == order_date <= reprocess_from

\* existing_df["order_date"] < reprocess_from
OlderThanWindow(order_date, reprocess_from) == order_date < reprocess_from

\* Variant: the existing rows are read without the date filter.
ReadExistingDfUnfiltered(table, raises, reprocess_from) ==
    IF raises THEN <<>>
    ELSE LET existing_df == ToDf(table)
         IN SortValues([i \in 1..Len(existing_df) |-> DailyColumns(existing_df[i])])

\* The try block that reads the rows older than the reprocess window; a read
\* that raises leaves an empty frame.
ReadExistingDf(table, raises, reprocess_from) ==
    IF raises THEN <<>>
    ELSE LET existing_df == ToDf(table)
         IN IF existing_df # <<>>
            THEN LET older == SelectSeq(existing_df,
                        LAMBDA r : OlderThanWindow(r.order_date, reprocess_from))
                 IN SortValues([i \in 1..Len(older) |-> DailyColumns(older[i])])
            ELSE <<>>

\* Variant: the running total is computed over the reprocessed window only.
CombineDfsWindowOnly(new_agg_df, existing_df) == new_agg_df

\* Variant: with no fresh rows the run returns an empty frame.
CombineDfsNeedsNew(new_agg_df, existing_df) ==
    IF new_agg_df = <<>> THEN <<>>
    ELSE IF existing_df # <<>> THEN new_agg_df \o existing_df ELSE new_agg_df

\* pd.concat([new_agg_df, existing_df]) when existing_df is not empty
CombineDfs(new_agg_df, existing_df) ==
    IF existing_df # <<>> THEN new_agg_df \o existing_df ELSE new_agg_df

\* Variant: the running total is taken in concatenation order.
FinalDfUnsorted(combined_df) == WithRunningRevenue(combined_df)

\* Variant: the combined frame is sorted by date descending before cumsum.
FinalDfDescending(combined_df) ==
    LET sorted == SortValues(combined_df)
        n == Len(sorted)
    IN WithRunningRevenue([i \in 1..n |-> sorted[n + 1 - i]])

\* sort_values("order_date") followed by cumsum over the combined frame
FinalDf(combined_df) == WithRunningRevenue(SortValues(combined_df))

\* The full-refresh branch: every batch, no filter
FullRefreshDf(batches) ==
    IF batches # <<>>
    THEN WithRunningRevenue(SortValues(GroupByDate(Concat(batches))))
    ELSE <<>>

NoRun ==
    [model |-> "none", is_incremental |-> FALSE, window_cfg |-> None,
     from_date |-> None, read |-> EmptyRelation, max_date |-> None, window_start |-> None,
     new_agg_df |-> <<>>, existing_df |-> <<>>, final_df |-> <<>>,
     store_before |-> {}, existed_before |-> FALSE,
     max_read_raised |-> FALSE, existing_read_raised |-> FALSE,
     rerun |-> FALSE]

\* Whether a run with this configuration directly follows a completed run of
\* the v3 model with the same configuration, with no row added in between
\* (the first of the two may be the full refresh that builds the table).
IsRerun(is_incremental, window_cfg, from_date) ==
    /\ pc = "done"
    /\ run.model = "v3"
    /\ run.read = source
    /\ run.window_cfg = window_cfg
    /\ run.from_date = from_date
    /\ is_incremental \/ ~run.is_incremental

\* Variant: a full refresh also reads the table and merges the stored rows
\* older than the window into its output.
V3LocalsRefreshMerges(is_incremental, window_cfg, from_date, max_fault, existing_fault) ==
    LET batches == RecordBatches(source, BatchSize)
        days == ReprocessWindowDays(window_cfg)
        max_raises == (~store_exists) \/ max_fault
        existing_raises == (~store_exists) \/ existing_fault
        max_date == ReadMaxDate(store, max_raises)
        reprocess_from == ReprocessFrom(max_date, days)
        new_agg_df ==
            NewAggDf(AggregateDailyRevenueIncrementalPyarrow(batches, reprocess_from))
        existing_df == ReadExistingDf(store, existing_raises, reprocess_from)
    IN [model |-> "v3", is_incremental |-> is_incremental, window_cfg |-> window_cfg,
        from_date |-> from_date, read |-> source,
        max_date |-> IF is_incremental THEN max_date ELSE None,
        window_start |-> IF is_incremental THEN Some(reprocess_from) ELSE None,
        new_agg_df |-> IF is_incremental THEN new_agg_df ELSE <<>>,
        existing_df |-> IF is_incremental THEN existing_df ELSE <<>>,
        final_df |-> FinalDf(CombineDfs(new_agg_df, existing_df)),
        store_before |-> store, existed_before |-> store_exists,
        max_read_raised |-> is_incremental /\ max_raises,
        existing_read_raised |-> is_incremental /\ existing_raises,
        rerun |-> IsRerun(is_incremental, window_cfg, from_date)]

\* One call of model(dbt, session) of the v3 model.  max_fault and
\* existing_fault say whether a read of an existing table raises; a read of a
\* table that does not exist always raises.
V3Locals(is_incremental, window_cfg, from_date, max_fault, existing_fault) ==
    LET batches == RecordBatches(source, BatchSize)
        days == ReprocessWindowDays(window_cfg)
        max_raises == (~store_exists) \/ max_fault
        existing_raises == (~store_exists) \/ existing_fault
        max_date == ReadMaxDate(store, max_raises)
        reprocess_from == ReprocessFrom(max_date, days)
        new_agg_df ==
            NewAggDf(AggregateDailyRevenueIncrementalPyarrow(batches, reprocess_from))
        existing_df == ReadExistingDf(store, existing_raises, reprocess_from)
    IN IF is_incremental
       THEN [model |-> "v3", is_incremental |-> TRUE, window_cfg |-> window_cfg,
             from_date |-> from_date, read |-> source,
             max_date |-> max_date, window_start |-> Some(reprocess_from),
             new_agg_df |-> new_agg_df, existing_df |-> existing_df,
             final_df |-> FinalDf(CombineDfs(new_agg_df, existing_df)),
             store_before |-> store, existed_before |-> store_exists,
             max_read_raised |-> max_raises,
             existing_read_raised |-> existing_raises,
             rerun |-> IsRerun(TRUE, window_cfg, from_date)]
       ELSE [model |-> "v3", is_incremental |-> FALSE, window_cfg |-> window_cfg,
             from_date |-> from_date, read |-> source,
             max_date |-> None, window_start |-> None,
             new_agg_df |-> <<>>, existing_df |-> <<>>,
             final_df |-> FullRefreshDf(batches),
             store_before |-> store, existed_before |-> store_exists,
             max_read_raised |-> FALSE, existing_read_raised |-> FALSE,
             rerun |-> IsRerun(FALSE, window_cfg, from_date)]

(***************************************************************************)
(* The v2 model: agg_daily_revenue_py_v2.model                             *)
(***************************************************************************)
\* groupby("order_date").agg(revenue sum, order_id nunique), sorted by date
V2DailyAgg(df) ==
    LET keys == {df[i].order_date : i \in 1..Len(df)}
        Row(d) ==
            LET g == SelectSeq(df, LAMBDA e : e.order_date = d)
            IN [order_date |-> d, daily_revenue |-> SumRevenue(g),
                daily_orders |-> NUniqueOrders(g)]
    IN SortValues(SetToSortedSeq({Row(d) : d \in keys}))

\* Variant: the attribute is truthy in either mode (a bound method read
\* without a call).
V2IsIncrementalAttrTruthy(is_incremental) == TRUE

\* dbt.is_incremental, read without a call: dbt sets this attribute of the
\* object it hands to a Python model to the mode of the run, a boolean.
V2IsIncrementalAttr(is_incremental) == is_incremental

\* Variant: from_date is never applied.
V2FiltersNever(is_incremental, from_date_str) == FALSE

\* if dbt.is_incremental and from_date_str
V2Filters(is_incremental, from_date_str) ==
    V2IsIncrementalAttr(is_incremental) /\ from_date_str # None

\* pd.to_datetime(from_date_str).date(), the lower bound of the filter
V2FromDate(from_date_str) == Val(from_date_str)

\* The batches the v2 model returns
V2FinalDf(batches, is_incremental, from_date_str) ==
    IF V2Filters(is_incremental, from_date_str)
    THEN LET filtered_dfs == FilteredBatches(batches, V2FromDate(from_date_str))
         IN IF filtered_dfs # <<>> THEN V2DailyAgg(Concat(filtered_dfs)) ELSE <<>>
    ELSE IF batches # <<>> THEN V2DailyAgg(Concat(batches)) ELSE <<>>

V2Locals(is_incremental, from_date_str) ==
    [model |-> "v2", is_incremental |-> is_incremental, window_cfg |-> None,
     from_date |-> from_date_str, read |-> source, max_date |-> None,
     window_start |-> IF V2Filters(is_incremental, from_date_str)
                      THEN Some(V2FromDate(from_date_str)) ELSE None,
     new_agg_df |-> <<>>, existing_df |-> <<>>,
     final_df |-> V2FinalDf(RecordBatches(source, BatchSize),
                            is_incremental, from_date_str),
     store_before |-> store, existed_before |-> store_exists,
     max_read_raised |-> FALSE, existing_read_raised |-> FALSE,
     rerun |-> FALSE]

\* Variant: a stored row matched by the output is kept as it is; only output
\* rows of dates not yet stored are inserted.
UpsertKeepStored(table, rows) ==
    table \cup {q \in Range(rows) : \A r \in table : r.order_date # q.order_date}

\* Variant: a stored row matched by the output is deleted instead of replaced;
\* only output rows of dates not yet stored are inserted.
UpsertDeleteMatched(table, rows) ==
    {r \in table : \A i \in 1..Len(rows) : rows[i].order_date # r.order_date}
        \cup {q \in Range(rows) : \A r \in table : r.order_date # q.order_date}

\* incremental_strategy="merge", unique_key="order_date": a row of the output
\* replaces the stored row of the same date, other stored rows stay.
Upsert(table, rows) ==
    {r \in table : \A i \in 1..Len(rows) : rows[i].order_date # r.order_date}
        \cup Range(rows)

(***************************************************************************)
(* Actions                                                                 *)
(***************************************************************************)
\* Neither downloader script has been started.
NoDl == [phase |-> "off"]

\* No second run of the model is under way.
NoOther == [pc |-> "idle", locals |-> NoRun]

\* No call of the aggregator on its own has been made.
NoAgg ==
    [called |-> FALSE, rows |-> <<>>, cuts |-> {}, reprocess_from |-> Date1900,
     new_agg_df |-> <<>>, full_df |-> <<>>]

Init ==
    /\ source = EmptyRelation
    /\ store = {}
    /\ store_exists = FALSE
    /\ pc = "idle"
    /\ run = NoRun
    /\ agg = NoAgg
    /\ other = NoOther
    /\ dl = NoDl

\* The upstream relation stg_orders_v2 is append-only.
\* Rows arrive between runs; run holds the locals of the latest run until
\* the relation grows again.
AddEvent ==
    /\ pc # "computed"
    /\ RelationSize(source) < MaxEvents
    /\ \E e \in Events : source' = [source EXCEPT ![e] = @ + 1]
    /\ pc' = "idle"
    /\ run' = NoRun
    /\ UNCHANGED <<store, store_exists, agg, other, dl>>

\* Variant: the model writes its output to the table itself before it returns.
V3ModelWritesEarly ==
    /\ pc # "computed"
    /\ \E is_incremental \in BOOLEAN, window_cfg \in WindowConfigs,
          from_date \in FromDateConfigs :
          run' = V3Locals(is_incremental, window_cfg, from_date, FALSE, FALSE)
    /\ store' = IF run'.is_incremental /\ store_exists
                THEN Upsert(store, run'.final_df)
                ELSE Range(run'.final_df)
    /\ pc' = "computed"
    /\ UNCHANGED <<source, store_exists, agg, other, dl>>

\* A run of the v3 model whose store reads behave.
V3Model ==
    /\ pc # "computed"
    /\ \E is_incremental \in BOOLEAN, window_cfg \in WindowConfigs,
          from_date \in FromDateConfigs :
          run' = V3Locals(is_incremental, window_cfg, from_date, FALSE, FALSE)
    /\ pc' = "computed"
    /\ UNCHANGED <<source, store, store_exists, agg, other, dl>>

\* A run of the v3 model in which a read of the existing table raises.
V3ModelStoreFault ==
    /\ pc # "computed"
    /\ store_exists
    /\ \E window_cfg \in WindowConfigs, from_date \in FromDateConfigs,
          max_fault \in BOOLEAN, existing_fault \in BOOLEAN :
          /\ max_fault \/ existing_fault
          /\ run' = V3Locals(TRUE, window_cfg, from_date, max_fault, existing_fault)
    /\ pc' = "computed"
    /\ UNCHANGED <<source, store, store_exists, agg, other, dl>>

\* A run of the v2 model, up to the batches it returns (its own table is not
\* part of the state).
V2Model ==
    /\ pc # "computed"
    /\ \E is_incremental \in BOOLEAN, from_date \in FromDateConfigs :
          run' = V2Locals(is_incremental, from_date)
    /\ pc' = "done"
    /\ UNCHANGED <<source, store, store_exists, agg, other, dl>>

\* dbt writes the returned batches: a merge on order_date for an incremental
\* run against an existing table, a rebuild of the table otherwise.
Materialize ==
    /\ pc = "computed"
    /\ run.model = "v3"
    /\ store' = IF run.is_incremental /\ store_exists
                THEN Upsert(store, run.final_df)
                ELSE Range(run.final_df)
    /\ store_exists' = TRUE
    /\ pc' = "done"
    /\ UNCHANGED <<source, run, agg, other, dl>>

\* The process is stopped after model() has computed its batches and before
\* dbt writes them; run keeps the locals of the stopped call.
Abort ==
    /\ pc = "computed"
    /\ pc' = "aborted"
    /\ UNCHANGED <<source, store, store_exists, run, agg, other, dl>>

Next == AddEvent \/ V3Model \/ V2Model \/ Materialize \/ Abort

Spec == Init /\ [][Next]_vars

NextFault ==
    AddEvent \/ V3Model \/ V3ModelStoreFault \/ V2Model \/ Materialize \/ Abort

SpecFault == Init /\ [][NextFault]_vars

\* A writer other than this model inserts into the table a second row for a
\* date the table already holds: the table declares no key constraint, and
\* unique_key only steers the merge of the model's own output.
ForeignWrite ==
    /\ pc # "computed"
    /\ store_exists
    /\ \A r1, r2 \in store : r1.order_date = r2.order_date => r1 = r2
    /\ \E r \in store :
          store' = store \cup {[r EXCEPT !.daily_revenue = @ + 1,
                                         !.running_revenue = @ + 1]}
    /\ pc' = "idle"
    /\ run' = NoRun
    /\ UNCHANGED <<source, store_exists, agg, other, dl>>

NextForeign ==
    AddEvent \/ V3Model \/ V2Model \/ Materialize \/ Abort \/ ForeignWrite

SpecForeign == Init /\ [][NextForeign]_vars

(***************************************************************************)
(* Two runs of the v3 model that overlap: dbt does not lock the table, so  *)
(* a second `dbt run` can call model() after the first call has read the   *)
(* source and the table and before its output is written.                  *)
(***************************************************************************)
\* The upstream relation grows while a run waits for its write.
AppendDuringRun ==
    /\ pc = "computed"
    /\ run.is_incremental
    /\ store_exists
    /\ other.pc = "idle"
    /\ RelationSize(source) < MaxEvents
    /\ \E e \in Events : source' = [source EXCEPT ![e] = @ + 1]
    /\ UNCHANGED <<store, store_exists, pc, run, agg, other, dl>>

\* A second incremental run of the same model, with the same configuration,
\* reads the source and the table before the first run has written.
V3ModelOverlapping ==
    /\ pc = "computed"
    /\ run.is_incremental
    /\ store_exists
    /\ other.pc = "idle"
    /\ other' = [pc |-> "computed",
                 locals |-> V3Locals(TRUE, run.window_cfg, run.from_date,
                                     FALSE, FALSE)]
    /\ UNCHANGED <<source, store, store_exists, pc, run, agg, dl>>

\* dbt merges the output of the second run into the table.
MaterializeOther ==
    /\ other.pc = "computed"
    /\ store' = Upsert(store, other.locals.final_df)
    /\ other' = [other EXCEPT !.pc = "done"]
    /\ UNCHANGED <<source, store_exists, pc, run, agg, dl>>

\* Once a second run is under way, only the two writes are followed.
AddEventBeforeOverlap == other.pc = "idle" /\ AddEvent

V3ModelBeforeOverlap == other.pc = "idle" /\ V3Model

NextOverlap ==
    \/ AddEventBeforeOverlap
    \/ V3ModelBeforeOverlap
    \/ Materialize
    \/ AppendDuringRun
    \/ V3ModelOverlapping
    \/ MaterializeOther

SpecOverlap == Init /\ [][NextOverlap]_vars

(***************************************************************************)
(* Successive runs under one configuration: reprocess_window_days is set   *)
(* once for the project and from_date is not set.  run keeps the locals of *)
(* the latest run while the source grows.                                  *)
(***************************************************************************)
AddEventKeepingRun ==
    /\ pc # "computed"
    /\ RelationSize(source) < MaxEvents
    /\ \E e \in Events : source' = [source EXCEPT ![e] = @ + 1]
    /\ UNCHANGED <<store, store_exists, pc, run, agg, other, dl>>

V3ModelFixedLookback ==
    /\ pc # "computed"
    /\ \E is_incremental \in BOOLEAN, window_cfg \in WindowConfigs :
          /\ run.model = "none" \/ window_cfg = run.window_cfg
          /\ run' = V3Locals(is_incremental, window_cfg, None, FALSE, FALSE)
    /\ pc' = "computed"
    /\ UNCHANGED <<source, store, store_exists, agg, other, dl>>

NextFixed == AddEventKeepingRun \/ V3ModelFixedLookback \/ Materialize

SpecFixed == Init /\ [][NextFixed]_vars

(***************************************************************************)
(* The downloader scripts: download_and_repartition.py and                 *)
(* download_nyc_taxi_data.py.  download_file and the scheduling loop of    *)
(* main are the same in both; only the first script repartitions.          *)
(***************************************************************************)
MaxMonths == 2

\* the (year, month) pairs of generate_date_range, numbered
Months == 1..MaxMonths

Scripts == {"download_and_repartition", "download_nyc_taxi_data"}

\* values of --concurrency
ConcurrencyValues == {1, 2}

\* a task of this status has entered `async with semaphore` and not left it
HoldingStatuses == {"holding", "writing"}

\* Variant: the semaphore is acquired with a bare acquire() and a task that
\* ends never gives it back.
SemReleaseNever(value) == value

\* Semaphore.release(), run by `async with semaphore` on every way out
SemRelease(value) == value + 1

\* main up to asyncio.gather: the loop builds a task for every month that is
\* not skipped; no task runs before gather.
ScheduleTasks(files, skip_existing) ==
    [m \in Months |->
        IF skip_existing /\ files[m] # "absent" THEN "skipped" ELSE "waiting"]

\* A start of a script: the arguments are parsed, the semaphore is created
\* and the tasks are built.
StartScript(files, partitioned, restarted, script, skip_existing, keep_monthly, concurrency) ==
    [phase |-> "download", script |-> script, skip_existing |-> skip_existing,
     keep_monthly |-> keep_monthly, concurrency |-> concurrency,
     sem |-> concurrency, files |-> files,
     task |-> ScheduleTasks(files, skip_existing),
     start_files |-> files, next |-> 1,
     rep |-> [m \in Months |-> "none"], passed |-> {},
     partitioned |-> partitioned, restarted |-> restarted]

InitScripts ==
    /\ source = EmptyRelation
    /\ store = {}
    /\ store_exists = FALSE
    /\ pc = "idle"
    /\ run = NoRun
    /\ agg = NoAgg
    /\ other = NoOther
    /\ \E script \in Scripts, skip_existing \in BOOLEAN, keep_monthly \in BOOLEAN,
          concurrency \in ConcurrencyValues :
          dl = StartScript([m \in Months |-> "absent"], {}, FALSE, script,
                           skip_existing, keep_monthly, concurrency)

\* `async with semaphore`: a task enters when the semaphore has a free slot.
Acquire ==
    /\ dl.phase = "download"
    /\ \E m \in Months :
          /\ dl.task[m] = "waiting"
          /\ dl.sem > 0
          /\ dl' = [dl EXCEPT !.task[m] = "holding", !.sem = @ - 1]
    /\ UNCHANGED <<source, store, store_exists, pc, run, agg, other>>

\* session.get answers 404 or another status, or raises (timeout, client
\* error) before the output file is opened: the task returns False.
FailBeforeOpen ==
    /\ dl.phase = "download"
    /\ \E m \in Months :
          /\ dl.task[m] = "holding"
          /\ dl' = [dl EXCEPT !.task[m] = "false", !.sem = SemRelease(@)]
    /\ UNCHANGED <<source, store, store_exists, pc, run, agg, other>>

\* Status 200: open(output_path, "wb") creates or truncates the file.
OpenOutput ==
    /\ dl.phase = "download"
    /\ \E m \in Months :
          /\ dl.task[m] = "holding"
          /\ dl' = [dl EXCEPT !.task[m] = "writing", !.files[m] = "partial"]
    /\ UNCHANGED <<source, store, store_exists, pc, run, agg, other>>

\* All chunks are written: the task returns True.
FinishDownload ==
    /\ dl.phase = "download"
    /\ \E m \in Months :
          /\ dl.task[m] = "writing"
          /\ dl' = [dl EXCEPT !.task[m] = "true", !.files[m] = "complete",
                               !.sem = SemRelease(@)]
    /\ UNCHANGED <<source, store, store_exists, pc, run, agg, other>>

\* iter_chunked raises (timeout, network error) while the file is written:
\* the except clauses return False; nothing removes the file.
FailMidTransfer ==
    /\ dl.phase = "download"
    /\ \E m \in Months :
          /\ dl.task[m] = "writing"
          /\ dl' = [dl EXCEPT !.task[m] = "false", !.sem = SemRelease(@)]
    /\ UNCHANGED <<source, store, store_exists, pc, run, agg, other>>

\* asyncio.gather returns.  download_nyc_taxi_data prints its summary and
\* ends; download_and_repartition ends when nothing was downloaded or skipped
\* and goes on to step 2 otherwise.
GatherReturns ==
    /\ dl.phase = "download"
    /\ \A m \in Months : dl.task[m] \in {"skipped", "true", "false"}
    /\ dl' = [dl EXCEPT !.phase =
                 IF dl.script = "download_nyc_taxi_data" THEN "done"
                 ELSE IF \A m \in Months : dl.task[m] = "false" THEN "done"
                 ELSE "repartition"]
    /\ UNCHANGED <<source, store, store_exists, pc, run, agg, other>>

\* Step 2 of main for a month whose file does not exist: no call is made.
RepartitionSkipsAbsent ==
    /\ dl.phase = "repartition"
    /\ dl.next \in Months
    /\ dl.files[dl.next] = "absent"
    /\ dl' = [dl EXCEPT !.next = @ + 1]
    /\ UNCHANGED <<source, store, store_exists, pc, run, agg, other>>

\* repartition_with_duckdb up to conn.execute(partition_query).  The file
\* exists; the COPY reads it and writes the partitions, or raises and the
\* function returns False.  A file a failed download left behind ends
\* before its Parquet footer and cannot be read.
RepartitionWrites ==
    /\ dl.phase = "repartition"
    /\ dl.next \in Months
    /\ LET m == dl.next
       IN /\ dl.files[m] # "absent"
          /\ dl.rep[m] = "none"
          /\ \E ok \in BOOLEAN :
                /\ dl.files[m] = "partial" => ~ok
                /\ dl' = IF ok
                         THEN [dl EXCEPT !.passed = @ \cup {m},
                                         !.rep[m] = "written",
                                         !.partitioned = @ \cup {m}]
                         ELSE [dl EXCEPT !.passed = @ \cup {m},
                                         !.rep[m] = "false",
                                         !.next = @ + 1]
    /\ UNCHANGED <<source, store, store_exists, pc, run, agg, other>>

\* Variant: the monthly file is deleted whatever keep_monthly says.
DeletesMonthlyAlways(keep_monthly) == TRUE

\* if not keep_monthly: raw_file.unlink()
DeletesMonthly(keep_monthly) == ~keep_monthly

\* repartition_with_duckdb after the write: the monthly file is deleted
\* unless keep_monthly, and the function returns True; an unlink that raises
\* is caught and the function returns False.
RepartitionReturns ==
    /\ dl.phase = "repartition"
    /\ dl.next \in Months
    /\ LET m == dl.next
       IN /\ dl.rep[m] = "written"
          /\ \E unlinked \in BOOLEAN :
                dl' = IF ~DeletesMonthly(dl.keep_monthly)
                      THEN [dl EXCEPT !.rep[m] = "true", !.next = @ + 1]
                      ELSE IF unlinked
                      THEN [dl EXCEPT !.rep[m] = "true", !.next = @ + 1,
                                      !.files[m] = "absent"]
                      ELSE [dl EXCEPT !.rep[m] = "false", !.next = @ + 1]
    /\ UNCHANGED <<source, store, store_exists, pc, run, agg, other>>

\* The loop of step 2 is over; main prints its summary and returns.
MainReturns ==
    /\ dl.phase = "repartition"
    /\ dl.next \notin Months
    /\ dl' = [dl EXCEPT !.phase = "done"]
    /\ UNCHANGED <<source, store, store_exists, pc, run, agg, other>>

\* A script is started once more on the directories the run before left.
StartAgain ==
    /\ dl.phase = "done"
    /\ ~dl.restarted
    /\ \E script \in Scripts, skip_existing \in BOOLEAN, keep_monthly \in BOOLEAN,
          concurrency \in ConcurrencyValues :
          dl' = StartScript(dl.files, dl.partitioned, TRUE, script,
                            skip_existing, keep_monthly, concurrency)
    /\ UNCHANGED <<source, store, store_exists, pc, run, agg, other>>

NextScripts ==
    \/ Acquire \/ FailBeforeOpen \/ OpenOutput \/ FinishDownload
    \/ FailMidTransfer \/ GatherReturns
    \/ RepartitionSkipsAbsent \/ RepartitionWrites \/ RepartitionReturns
    \/ MainReturns \/ StartAgain

SpecScripts == InitScripts /\ [][NextScripts]_vars

(***************************************************************************)
(* The aggregation on its own: the generator of the incremental branch and *)
(* the aggregation of the full-refresh branch, applied to batches of any   *)
(* content, order and split.                                               *)
(***************************************************************************)
MaxAggRows == 3

AggDates == {19, 20}

\* order lines of two orders and two buyers; an order has one amount
AggEvents ==
    {[order_date |-> d, revenue |-> o, order_id |-> o, buyer_id |-> b] :
        d \in AggDates, o \in {1, 2}, b \in {1, 2}}

AggReprocessFroms == {Date1900, 20}

RECURSIVE SplitRows(_, _)
\* the batches a reader yields for rows when a batch ends after each row
\* numbered in cuts
SplitRows(rows, cuts) ==
    IF rows = <<>> THEN <<>>
    ELSE LET ends == cuts \cup {Len(rows)}
             k == CHOOSE x \in ends : \A y \in ends : x <= y
         IN <<SubSeq(rows, 1, k)>>
                \o SplitRows(SubSeq(rows, k + 1, Len(rows)),
                             {c - k : c \in cuts \ {k}})

\* The batches handed to the aggregator: up to MaxAggRows rows in any order,
\* split into batches at any positions, and a reprocess_from_date.
InitAgg ==
    /\ source = EmptyRelation
    /\ store = {}
    /\ store_exists = FALSE
    /\ pc = "idle"
    /\ run = NoRun
    /\ other = NoOther
    /\ dl = NoDl
    /\ \E n \in 0..MaxAggRows :
          \E r \in [1..n -> AggEvents], c \in SUBSET (1..(n - 1)),
             d \in AggReprocessFroms :
             agg = [called |-> FALSE, rows |-> r, cuts |-> c, reprocess_from |-> d,
                    new_agg_df |-> <<>>, full_df |-> <<>>]

\* One pass of each branch's aggregation over the same batches.
Aggregate ==
    /\ ~agg.called
    /\ LET batches == SplitRows(agg.rows, agg.cuts)
       IN agg' = [agg EXCEPT
                     !.called = TRUE,
                     !.new_agg_df =
                         NewAggDf(AggregateDailyRevenueIncrementalPyarrow(
                                      batches, agg.reprocess_from)),
                     !.full_df = FullRefreshDf(batches)]
    /\ UNCHANGED <<source, store, store_exists, pc, run, other, dl>>

NextAgg == Aggregate

SpecAgg == InitAgg /\ [][NextAgg]_vars

(***************************************************************************)
(* Vocabulary of the properties                                            *)
(***************************************************************************)
DatesOf(df) == {df[i].order_date : i \in 1..Len(df)}

StoreDates(table) == {r.order_date : r \in table}

RECURSIVE SumDailyRevenue(_)
SumDailyRevenue(rows) ==
    IF rows = {} THEN 0
    ELSE LET r == CHOOSE x \in rows : TRUE
         IN r.daily_revenue + SumDailyRevenue(rows \ {r})

\* the revenue of the rows of a relation dated d
RevenueOn(rel, d) ==
    LET RECURSIVE Total(_)
        Total(S) == IF S = {} THEN 0
                    ELSE LET e == CHOOSE x \in S : TRUE
                         IN rel[e] * e.revenue + Total(S \ {e})
    IN Total({e \in Events : e.order_date = d})

HasEventOn(rel, d) == \E e \in Events : e.order_date = d /\ rel[e] > 0

V3Computed == run.model = "v3" /\ pc \in {"computed", "done"}

V3Done == run.model = "v3" /\ pc = "done"

\* a windowed merge: an incremental run that resolved its window from the store
WindowedMerge == V3Computed /\ run.is_incremental /\ run.max_date # None

WindowStart == Val(run.window_start)

(***************************************************************************)
(* C1  Prefix sum: after every run, the running_revenue of every stored    *)
(* row is the sum of daily_revenue over all stored rows of that date or    *)
(* an earlier one, carried-forward rows included.                          *)
(***************************************************************************)
C1_PrefixSum ==
    \A r \in store :
        r.running_revenue =
            SumDailyRevenue({q \in store : q.order_date <= r.order_date})

\* a windowed merge wrote fresh rows behind carried-forward ones
C1_Witness ==
    /\ V3Done /\ WindowedMerge
    /\ run.existing_df # <<>>
    /\ run.new_agg_df # <<>>
    /\ \E r \in store : r.order_date >= WindowStart
                        /\ r.running_revenue > r.daily_revenue

(***************************************************************************)
(* C2  Idempotence: a run that directly follows a completed run with the   *)
(* same configuration, no row having been added in between, leaves the     *)
(* table as the first run left it.                                         *)
(***************************************************************************)
C2_Idempotent == (V3Done /\ run.rerun) => store = run.store_before

C2_Witness ==
    /\ V3Done /\ run.rerun /\ WindowedMerge
    /\ run.existing_df # <<>>
    /\ run.new_agg_df # <<>>

(***************************************************************************)
(* C3  Replace, not accumulate: after a windowed merge, every date at or   *)
(* after window_start that had a stored row has exactly one stored row,    *)
(* whose daily_revenue is the revenue of the source rows of that date; the *)
(* row comes from the fresh aggregate and not from the carried rows.       *)
(***************************************************************************)
C3_ReplaceNotAccumulate ==
    (V3Done /\ WindowedMerge) =>
        \A old \in run.store_before :
            old.order_date >= WindowStart =>
                /\ Cardinality({r \in store : r.order_date = old.order_date}) = 1
                /\ \A r \in store :
                      r.order_date = old.order_date =>
                          r.daily_revenue = RevenueOn(run.read, old.order_date)
                /\ old.order_date \in DatesOf(run.new_agg_df)
                /\ old.order_date \notin DatesOf(run.existing_df)

\* a stored row inside the window was replaced by a different daily value
C3_Witness ==
    /\ V3Done /\ WindowedMerge
    /\ \E old \in run.store_before :
          /\ old.order_date >= WindowStart
          /\ old.daily_revenue # RevenueOn(run.read, old.order_date)

(***************************************************************************)
(* C4  Boundary exclusion: the existing rows fed into the merge hold no    *)
(* row dated window_start or later.                                        *)
(***************************************************************************)
C4_BoundaryExclusion ==
    (V3Computed /\ run.is_incremental) =>
        \A i \in 1..Len(run.existing_df) :
            run.existing_df[i].order_date < WindowStart

\* the table holds a row dated exactly window_start, and older rows are carried
C4_Witness ==
    /\ V3Computed /\ run.is_incremental
    /\ run.existing_df # <<>>
    /\ \E old \in run.store_before : old.order_date = WindowStart

(***************************************************************************)
(* C5  Key uniqueness: the output of every run and the table hold one row  *)
(* per date; the output of an incremental run has a row for exactly the    *)
(* dates of the fresh rows and of the carried rows, and after the write    *)
(* the table has a row for each of them.                                   *)
(***************************************************************************)
C5_KeyUniqueness ==
    /\ \A r1, r2 \in store : r1.order_date = r2.order_date => r1 = r2
    /\ V3Computed =>
          /\ \A i, j \in 1..Len(run.final_df) :
                run.final_df[i].order_date = run.final_df[j].order_date => i = j
          /\ run.is_incremental =>
                DatesOf(run.final_df) =
                    DatesOf(run.new_agg_df) \cup DatesOf(run.existing_df)
    /\ V3Done => DatesOf(run.final_df) \subseteq StoreDates(store)

C5_Witness ==
    /\ V3Done /\ WindowedMerge
    /\ run.existing_df # <<>>
    /\ run.new_agg_df # <<>>
    /\ \E old \in run.store_before : old.order_date = WindowStart

(***************************************************************************)
(* C6  Window by lookback: an incremental run with no from_date and a      *)
(* non-empty table has window_start = (latest stored date) minus           *)
(* reprocess_window_days, 14 when not configured; with 14 days and the     *)
(* latest stored date 2024-01-20 it is 2024-01-06.                         *)
(***************************************************************************)
C6_WindowByLookback ==
    (V3Computed /\ run.is_incremental /\ run.from_date = None
        /\ run.existed_before /\ run.store_before # {}) =>
        LET latest == Max(StoreDates(run.store_before))
        IN /\ run.window_cfg = None => WindowStart = latest - 14
           /\ run.window_cfg # None => WindowStart = latest - Val(run.window_cfg)
           /\ (run.window_cfg = None /\ latest = 20) => WindowStart = 6

C6_Witness ==
    /\ V3Computed /\ run.is_incremental /\ run.from_date = None
    /\ run.window_cfg = None
    /\ StoreDates(run.store_before) = {6, 20}
    /\ run.window_start = {6}

(***************************************************************************)
(* C7  Bootstrap from an empty store: an incremental run that finds the    *)
(* table empty or absent uses the far-past sentinel as window_start, every *)
(* source row passes the filter, and its output, and the table after the   *)
(* write, are those of a full refresh on the same source.                  *)
(***************************************************************************)
C7_BootstrapFromEmpty ==
    (V3Computed /\ run.is_incremental
        /\ (run.store_before = {} \/ ~run.existed_before)) =>
        /\ run.window_start = {Date1900}
        /\ \A d \in Dates : HasEventOn(run.read, d) => d \in DatesOf(run.new_agg_df)
        /\ \A i \in 1..Len(run.new_agg_df) :
              run.new_agg_df[i].daily_revenue =
                  RevenueOn(run.read, run.new_agg_df[i].order_date)
        /\ run.final_df = FullRefreshDf(RecordBatches(run.read, BatchSize))
        /\ pc = "done" => store = Range(FullRefreshDf(RecordBatches(run.read, BatchSize)))

\* an incremental run on an existing, empty table with rows on several dates
C7_Witness ==
    /\ V3Done /\ run.is_incremental
    /\ run.store_before = {}
    /\ Cardinality(store) >= 2

C9_NegativeLookbackRejected ==
    V3Computed =>
        /\ ReprocessWindowDays(run.window_cfg) >= 0
        /\ (run.is_incremental /\ run.max_date # None) =>
              WindowStart <= Val(run.max_date)

(***************************************************************************)
(* C10  In an incremental run, a failed read of a table that exists aborts *)
(* the run: the model returns no output and nothing is written.            *)
(***************************************************************************)
C10_StoreUnavailableIsFatal ==
    ~(/\ V3Computed /\ run.is_incremental
      /\ run.existed_before
      /\ (run.max_read_raised \/ run.existing_read_raised))

(***************************************************************************)
(* C11  Unverified output is never written: no incremental run returns     *)
(* output and has it written when the carried-forward rows hold two rows   *)
(* of one date, or a carried row is dated window_start or later, or the    *)
(* merged rows are not in ascending date order; such a run aborts.         *)
(***************************************************************************)
DuplicateCarriedDate ==
    \E i, j \in 1..Len(run.existing_df) :
        i # j /\ run.existing_df[i].order_date = run.existing_df[j].order_date

CarriedRowInWindow ==
    \E i \in 1..Len(run.existing_df) :
        run.existing_df[i].order_date >= WindowStart

MergedOutOfOrder ==
    \E i, j \in 1..Len(run.final_df) :
        i < j /\ run.final_df[i].order_date > run.final_df[j].order_date

C11_UnverifiedNeverWritten ==
    (V3Computed /\ run.is_incremental
        /\ (DuplicateCarriedDate \/ CarriedRowInWindow \/ MergedOutOfOrder)) =>
        /\ run.final_df = <<>>
        /\ pc # "done"
        /\ store = run.store_before

(***************************************************************************)
(* C12  Empty window: an incremental run whose source holds no row dated   *)
(* window_start or later completes; it has no fresh row, its output is     *)
(* exactly the stored rows older than window_start with their daily values *)
(* and running totals as stored, and the write adds no row to the table.   *)
(***************************************************************************)
NoEventInWindow ==
    \A e \in Events : run.read[e] > 0 => e.order_date < WindowStart

C12_EmptyWindow ==
    (V3Computed /\ run.is_incremental /\ NoEventInWindow) =>
        /\ run.new_agg_df = <<>>
        /\ Range(run.final_df) =
              {r \in run.store_before : r.order_date < WindowStart}
        /\ Len(run.final_df) = Cardinality(Range(run.final_df))
        /\ pc = "done" => (store = run.store_before /\ store_exists)

\* the source holds rows, all older than the window, and the table holds rows
C12_Witness ==
    /\ V3Done /\ run.is_incremental /\ NoEventInWindow
    /\ run.read # EmptyRelation
    /\ run.existing_df # <<>>
    /\ store = run.store_before

(***************************************************************************)
(* C13  No step of a run before the final write changes the table: only    *)
(* the write of the returned output does.  While a run waits for its write *)
(* and after it was stopped before the write, the table is as it was       *)
(* before the run, and a run started again from there with the same        *)
(* configuration returns the output the stopped run had returned.          *)
(***************************************************************************)
RetryOutput ==
    V3Locals(run.is_incremental, run.window_cfg, run.from_date, FALSE, FALSE).final_df

C13_NoWriteBeforeFinal ==
    /\ [][(~(pc = "computed" /\ pc' = "done")) =>
              (store' = store /\ store_exists' = store_exists)]_vars
    /\ []((run.model = "v3" /\ pc \in {"computed", "aborted"}) =>
              /\ store = run.store_before
              /\ store_exists = run.existed_before
              /\ RetryOutput = run.final_df)

\* a windowed merge with fresh and carried rows was stopped before its write
C13_Witness ==
    /\ pc = "aborted" /\ run.model = "v3"
    /\ run.is_incremental /\ run.max_date # None
    /\ run.existing_df # <<>>
    /\ run.new_agg_df # <<>>
    /\ Range(run.final_df) # store

(***************************************************************************)
(* C14  Carried-forward history is unchanged: after a windowed merge,      *)
(* every date older than window_start that had a stored row has exactly    *)
(* one stored row, with the daily_revenue, daily_orders and daily_buyers   *)
(* it had before the run, also when the source holds rows of that date     *)
(* that the stored row does not count.                                     *)
(***************************************************************************)
C14_HistoryUnchanged ==
    (V3Done /\ WindowedMerge) =>
        \A old \in run.store_before :
            old.order_date < WindowStart =>
                /\ Cardinality({r \in store : r.order_date = old.order_date}) = 1
                /\ \A r \in store :
                      r.order_date = old.order_date =>
                          DailyColumns(r) = DailyColumns(old)

\* a carried row whose date has source rows it does not count, next to a
\* reprocessed window
C14_Witness ==
    /\ V3Done /\ WindowedMerge
    /\ run.new_agg_df # <<>>
    /\ \E old \in run.store_before :
          /\ old.order_date < WindowStart
          /\ old.daily_revenue # RevenueOn(run.read, old.order_date)
          /\ \E r \in store : r.order_date = old.order_date

(***************************************************************************)
(* C15  Rows are never deleted: no step removes a date from the table; a   *)
(* date that has a stored row has one after every later run, incremental   *)
(* or full refresh.                                                        *)
(***************************************************************************)
C15_RowsNeverDeleted ==
    [][StoreDates(store) \subseteq StoreDates(store')]_vars

\* a run wrote to a table that held rows, and the table holds more dates now
C15_Witness ==
    /\ V3Done
    /\ run.store_before # {}
    /\ StoreDates(run.store_before) \subseteq StoreDates(store)
    /\ StoreDates(run.store_before) # StoreDates(store)

(***************************************************************************)
(* C16  Distinct-count correctness: in every aggregated row, of the        *)
(* incremental and of the full-refresh branch, daily_orders is the number  *)
(* of distinct order_id and daily_buyers the number of distinct buyer_id   *)
(* among the aggregated input rows of that date, and daily_revenue is the  *)
(* sum of revenue over every such row, repeated ones included.             *)
(***************************************************************************)
\* the positions of the input rows dated d
AggRowsOn(d) == {i \in 1..Len(agg.rows) : agg.rows[i].order_date = d}

RECURSIVE SumRevenueAt(_)
SumRevenueAt(I) ==
    IF I = {} THEN 0
    ELSE LET i == CHOOSE x \in I : TRUE
         IN agg.rows[i].revenue + SumRevenueAt(I \ {i})

DistinctCounts(df) ==
    \A k \in 1..Len(df) :
        LET I == AggRowsOn(df[k].order_date)
        IN /\ df[k].daily_orders = Cardinality({agg.rows[i].order_id : i \in I})
           /\ df[k].daily_buyers = Cardinality({agg.rows[i].buyer_id : i \in I})
           /\ df[k].daily_revenue = SumRevenueAt(I)

C16_DistinctCounts ==
    agg.called => (DistinctCounts(agg.new_agg_df) /\ DistinctCounts(agg.full_df))

\* three rows of one buyer on one date, two of them of the same order
C16_Witness ==
    /\ agg.called
    /\ \E k \in 1..Len(agg.new_agg_df) :
          /\ Cardinality(AggRowsOn(agg.new_agg_df[k].order_date)) = 3
          /\ agg.new_agg_df[k].daily_orders = 2
          /\ agg.new_agg_df[k].daily_buyers = 1
          /\ agg.new_agg_df[k].daily_revenue > 3

(***************************************************************************)
(* C17  The aggregator of the incremental branch yields one row for each   *)
(* date that has an input row dated reprocess_from or later, and no other  *)
(* row: none for a date without input rows, none with zero counts, none    *)
(* for a date before reprocess_from.                                       *)
(***************************************************************************)
C17_OneRowPerWindowDate ==
    agg.called =>
        /\ DatesOf(agg.new_agg_df) =
              {agg.rows[i].order_date : i \in
                  {j \in 1..Len(agg.rows) :
                      agg.rows[j].order_date >= agg.reprocess_from}}
        /\ Len(agg.new_agg_df) = Cardinality(DatesOf(agg.new_agg_df))
        /\ \A k \in 1..Len(agg.new_agg_df) :
              /\ agg.new_agg_df[k].daily_orders >= 1
              /\ agg.new_agg_df[k].daily_buyers >= 1
              /\ agg.new_agg_df[k].order_date >= agg.reprocess_from

\* rows before and on the boundary date: one fresh row, for the boundary date
C17_Witness ==
    /\ agg.called
    /\ agg.reprocess_from = 20
    /\ AggRowsOn(19) # {}
    /\ AggRowsOn(20) # {}
    /\ DatesOf(agg.new_agg_df) = {20}

(***************************************************************************)
(* C18  Order independence: for the same rows, the aggregated rows of the  *)
(* incremental and of the full-refresh branch are the same for every order *)
(* of the rows (within and across batches) and every split into batches.   *)
(***************************************************************************)
\* The rows in an order fixed by their content alone, whatever order and
\* split they came in.
RowKey(e) == e.order_date * 100 + e.order_id * 10 + e.buyer_id

RECURSIVE InsertByKey(_, _)
InsertByKey(e, sorted) ==
    IF sorted = <<>> THEN <<e>>
    ELSE IF RowKey(e) <= RowKey(Head(sorted)) THEN <<e>> \o sorted
    ELSE <<Head(sorted)>> \o InsertByKey(e, Tail(sorted))

RECURSIVE SameRowsOneOrder(_)
SameRowsOneOrder(rows) ==
    IF rows = <<>> THEN <<>>
    ELSE InsertByKey(Head(rows), SameRowsOneOrder(Tail(rows)))

\* Every arrangement of the same rows aggregates to what these rows give when
\* they come in one batch in the fixed order, hence any two arrangements of
\* the same rows aggregate to the same.
C18_OrderIndependence ==
    agg.called =>
        LET batches == SplitRows(SameRowsOneOrder(agg.rows), {})
        IN /\ NewAggDf(AggregateDailyRevenueIncrementalPyarrow(
                           batches, agg.reprocess_from)) = agg.new_agg_df
           /\ FullRefreshDf(batches) = agg.full_df

\* three different rows in two batches, part of them before the window
C18_Witness ==
    /\ agg.called
    /\ Len(agg.rows) = 3
    /\ Cardinality(Range(agg.rows)) = 3
    /\ agg.cuts = {1}
    /\ agg.reprocess_from = 20
    /\ agg.rows[1].order_date = 20
    /\ agg.rows[2].order_date = 19
    /\ agg.rows[3].order_date = 20

(***************************************************************************)
(* C19  Empty input is not an error: a run whose source holds no row, or   *)
(* no row that passes its date filter, has no aggregated row and still     *)
(* completes, in the incremental and the full-refresh branch of the v3     *)
(* model and of the v2 model; with nothing carried either, its output is   *)
(* empty and the table is written empty.                                   *)
(***************************************************************************)
C19_EmptyInputCompletes ==
    /\ (V3Computed /\ run.is_incremental /\ NoEventInWindow) =>
          /\ run.new_agg_df = <<>>
          /\ DatesOf(run.final_df) = DatesOf(run.existing_df)
    /\ (V3Computed /\ ~run.is_incremental /\ run.read = EmptyRelation) =>
          run.final_df = <<>>
    /\ (V3Done /\ run.read = EmptyRelation) => (store = {} /\ store_exists)
    /\ (run.model = "v2" /\ run.read = EmptyRelation) => run.final_df = <<>>
    /\ (run.model = "v2" /\ run.is_incremental /\ run.from_date # None
          /\ \A e \in Events :
                run.read[e] > 0 => e.order_date < Val(run.from_date)) =>
          run.final_df = <<>>

\* an incremental run on an empty source and no table has completed
C19_Witness ==
    /\ V3Done /\ run.is_incremental
    /\ run.read = EmptyRelation
    /\ ~run.existed_before
    /\ run.final_df = <<>>
    /\ store_exists

(***************************************************************************)
(* C20  running_revenue is non-decreasing in date: amounts being >= 0, of  *)
(* any two stored rows the one with the later date has a running_revenue   *)
(* at least that of the other, after every run; the same holds inside the  *)
(* output of every run.                                                    *)
(***************************************************************************)
C20_RunningNonDecreasing ==
    /\ \A r1, r2 \in store :
          r1.order_date < r2.order_date =>
              r1.running_revenue <= r2.running_revenue
    /\ V3Computed =>
          \A i, j \in 1..Len(run.final_df) :
              run.final_df[i].order_date < run.final_df[j].order_date =>
                  run.final_df[i].running_revenue <= run.final_df[j].running_revenue

\* a windowed merge left rows on three dates, carried and fresh
C20_Witness ==
    /\ V3Done /\ WindowedMerge
    /\ run.existing_df # <<>>
    /\ run.new_agg_df # <<>>
    /\ Cardinality(StoreDates(store)) = 3
    /\ \E r1, r2 \in store :
          r1.order_date < r2.order_date /\ r1.running_revenue < r2.running_revenue

(***************************************************************************)
(* C21  Late rows inside the window are caught: after an incremental run,  *)
(* every date at or after window_start that has source rows has one stored *)
(* row whose daily_revenue is the revenue of all source rows of that date, *)
(* rows added since the previous run included, also when the date is       *)
(* before the latest stored date; and the running_revenue of every stored  *)
(* row at or after window_start is the revenue carried from before the     *)
(* window plus the source revenue from window_start up to its date.        *)
(***************************************************************************)
\* the source revenue of the dates from..to
RevenueBetween(rel, from, to) ==
    LET RECURSIVE Total(_)
        Total(S) == IF S = {} THEN 0
                    ELSE LET d == CHOOSE x \in S : TRUE
                         IN RevenueOn(rel, d) + Total(S \ {d})
    IN Total({d \in Dates : from <= d /\ d <= to})

C21_LateEventsCaught ==
    (V3Done /\ run.is_incremental) =>
        LET carried ==
                SumDailyRevenue({q \in run.store_before : q.order_date < WindowStart})
        IN /\ \A d \in Dates :
                 (d >= WindowStart /\ HasEventOn(run.read, d)) =>
                     /\ Cardinality({r \in store : r.order_date = d}) = 1
                     /\ \A r \in store :
                           r.order_date = d =>
                               r.daily_revenue = RevenueOn(run.read, d)
           /\ \A r \in store :
                 r.order_date >= WindowStart =>
                     r.running_revenue =
                         carried + RevenueBetween(run.read, WindowStart, r.order_date)

\* a row was added for a stored date inside the window and before the latest
\* stored date; the run has replaced that date's row
C21_Witness ==
    /\ V3Done /\ WindowedMerge
    /\ \E old \in run.store_before :
          /\ old.order_date >= WindowStart
          /\ old.order_date < Val(run.max_date)
          /\ old.daily_revenue < RevenueOn(run.read, old.order_date)
          /\ \E r \in store :
                /\ r.order_date = old.order_date
                /\ r.daily_revenue = RevenueOn(run.read, old.order_date)

(***************************************************************************)
(* C22  In the v2 model from_date filters incremental runs only: a run     *)
(* that is not incremental aggregates every source row, from_date set or   *)
(* not, and an incremental run with from_date set aggregates exactly the   *)
(* rows dated from_date or later.                                          *)
(***************************************************************************)
\* df has one row for each date of dates that has source rows, with the
\* revenue of all source rows of that date, and no other row
AggregatesDates(df, dates) ==
    /\ DatesOf(df) = {d \in dates : HasEventOn(run.read, d)}
    /\ Len(df) = Cardinality(DatesOf(df))
    /\ \A i \in 1..Len(df) :
          df[i].daily_revenue = RevenueOn(run.read, df[i].order_date)

C22_FromDateOnlyIncremental ==
    run.model = "v2" =>
        /\ ~run.is_incremental => AggregatesDates(run.final_df, Dates)
        /\ (run.is_incremental /\ run.from_date # None) =>
              AggregatesDates(run.final_df,
                              {d \in Dates : d >= Val(run.from_date)})

\* a full refresh with from_date = 2024-01-19 aggregated a row dated 2024-01-06
C22_Witness ==
    /\ run.model = "v2" /\ pc = "done"
    /\ ~run.is_incremental
    /\ run.from_date = {19}
    /\ 6 \in DatesOf(run.final_df)
    /\ 20 \in DatesOf(run.final_df)

(***************************************************************************)
(* C23  A full refresh bypasses the merge: the output of a run that is not *)
(* incremental is the aggregation of the source rows alone, whatever the   *)
(* table holds, and two such runs over the same source return the same     *)
(* output although the table differs between them.                         *)
(***************************************************************************)
C23_BootstrapBypassesMerge ==
    /\ []((V3Computed /\ ~run.is_incremental) =>
              /\ run.final_df = FullRefreshDf(RecordBatches(run.read, BatchSize))
              /\ run.existing_df = <<>>
              /\ run.max_date = None)
    /\ [][(/\ run.model = "v3" /\ ~run.is_incremental
            /\ run'.model = "v3" /\ ~run'.is_incremental
            /\ run'.read = run.read) =>
              run'.final_df = run.final_df]_vars

\* a full refresh over a table whose rows differ from what the source gives:
\* a stored date counts fewer rows than the source holds
C23_Witness ==
    /\ V3Done /\ ~run.is_incremental
    /\ run.store_before # {}
    /\ \E old \in run.store_before :
          old.daily_revenue # RevenueOn(run.read, old.order_date)
    /\ store = Range(run.final_df)

(***************************************************************************)
(* C24  The merged rows are in ascending date order when the running total *)
(* is computed: in an incremental run the frame that cumsum runs over is   *)
(* sorted by date, also when the concatenation, fresh rows first and older *)
(* history after them, is not.                                             *)
(***************************************************************************)
Ascending(df) ==
    \A i, j \in 1..Len(df) : i < j => df[i].order_date <= df[j].order_date

C24_AscendingAtCumSum ==
    (V3Computed /\ run.is_incremental) =>
        LET combined_df == CombineDfs(run.new_agg_df, run.existing_df)
            sorted == SortValues(combined_df)
        IN /\ Ascending(sorted)
           /\ Len(sorted) = Len(combined_df)
           /\ run.final_df = WithRunningRevenue(sorted)
           /\ Ascending(run.final_df)

\* fresh rows were concatenated before older carried rows
C24_Witness ==
    /\ V3Computed /\ run.is_incremental
    /\ run.new_agg_df # <<>>
    /\ run.existing_df # <<>>
    /\ ~Ascending(CombineDfs(run.new_agg_df, run.existing_df))
    /\ Ascending(run.final_df)

(***************************************************************************)
(* C25  Overlapping runs lose updates.  As long as no two runs have        *)
(* overlapped with rows added to the source between their reads, every     *)
(* stored row's running_revenue is the sum of the stored daily_revenue up  *)
(* to its date and the table holds one row per date; after such an overlap *)
(* there is an order of the two writes that leaves a table where this      *)
(* fails (the witness).                                                    *)
(***************************************************************************)
PrefixSumHolds ==
    /\ \A r \in store :
          r.running_revenue =
              SumDailyRevenue({q \in store : q.order_date <= r.order_date})
    /\ Cardinality(StoreDates(store)) = Cardinality(store)

OverlappedWithAppend == other.pc # "idle" /\ other.locals.read # run.read

C25_NoOverlapNoLostUpdate == (~OverlappedWithAppend) => PrefixSumHolds

\* both overlapping runs have written, and the table breaks the prefix sum
C25_Witness ==
    /\ pc = "done" /\ other.pc = "done"
    /\ OverlappedWithAppend
    /\ ~PrefixSumHolds

(***************************************************************************)
(* C26  Incremental equals full recomputation: when the table an           *)
(* incremental run starts from agrees, on every date before window_start,  *)
(* with the aggregation of the source the run reads (no row older than the *)
(* window was added since the table was built), the table after the run    *)
(* is, in dates, daily values and running totals, what a full refresh over *)
(* that source writes.  A table built by a full refresh and kept by such   *)
(* runs therefore always equals the full recomputation.                    *)
(***************************************************************************)
FullRecomputation == FullRefreshDf(RecordBatches(run.read, BatchSize))

\* before window_start, the table the run started from has a row for exactly
\* the dates with source rows, with the daily values of the full aggregation
InSyncBeforeWindow ==
    \A d \in Dates :
        d < WindowStart =>
            /\ HasEventOn(run.read, d) <=> d \in StoreDates(run.store_before)
            /\ \A old \in run.store_before :
                  old.order_date = d =>
                      \E i \in 1..Len(FullRecomputation) :
                          DailyColumns(FullRecomputation[i]) = DailyColumns(old)

C26_IncrementalEqualsFull ==
    (V3Done /\ run.is_incremental /\ InSyncBeforeWindow) =>
        store = Range(FullRecomputation)

\* rows were added inside the window of a table with carried history, and
\* the run brought the table to the full recomputation
C26_Witness ==
    /\ V3Done /\ WindowedMerge /\ InSyncBeforeWindow
    /\ run.existing_df # <<>>
    /\ run.store_before # store
    /\ Cardinality(store) = 3
    /\ store = Range(FullRecomputation)

(***************************************************************************)
(* C27  Rows older than the window are never picked up incrementally.      *)
(* With one lookback for all runs and store reads that succeed,            *)
(* window_start of an incremental run is never before window_start of the  *)
(* incremental run before it; an incremental run leaves every date before  *)
(* its window_start as the table had it, with or without a row, whatever   *)
(* the source holds for that date; and a full refresh writes the           *)
(* aggregation of all source rows.                                         *)
(***************************************************************************)
C27_OlderThanWindowNeverPickedUp ==
    /\ [][(/\ run.model = "v3" /\ run.is_incremental
            /\ pc # "computed" /\ pc' = "computed"
            /\ run'.is_incremental) =>
              Val(run'.window_start) >= Val(run.window_start)]_vars
    /\ []((V3Done /\ run.is_incremental) =>
              \A d \in Dates :
                  d < WindowStart =>
                      {r \in store : r.order_date = d} =
                          {r \in run.store_before : r.order_date = d})
    /\ []((V3Done /\ ~run.is_incremental) =>
              store = Range(FullRefreshDf(RecordBatches(run.read, BatchSize))))

\* a source row older than the window was missed by the run before, over the
\* same source, and is missed again by this incremental run
C27_Witness ==
    /\ V3Done /\ WindowedMerge /\ run.rerun
    /\ \E old \in store :
          /\ old.order_date < WindowStart
          /\ old \in run.store_before
          /\ old.daily_revenue < RevenueOn(run.read, old.order_date)

(***************************************************************************)
(* C28  Download concurrency bound: in both scripts the tasks that are     *)
(* inside `async with semaphore` never number more than --concurrency; the *)
(* semaphore counts exactly the free slots, so every task that has         *)
(* returned, True or False, has given its slot back; and when gather has   *)
(* returned all slots are free.                                            *)
(***************************************************************************)
Holders == {m \in Months : dl.task[m] \in HoldingStatuses}

C28_ConcurrencyBound ==
    /\ Cardinality(Holders) <= dl.concurrency
    /\ dl.sem = dl.concurrency - Cardinality(Holders)
    /\ dl.phase # "download" => dl.sem = dl.concurrency

\* with one slot, a task holds it after another task failed, while the file
\* of that task was being written, and gave it back
C28_Witness ==
    /\ dl.phase = "download"
    /\ dl.concurrency = 1
    /\ \E m1, m2 \in Months :
          /\ dl.task[m1] = "false"
          /\ dl.files[m1] = "partial"
          /\ dl.task[m2] \in HoldingStatuses

(***************************************************************************)
(* C29  Only complete files are repartitioned or skipped: a monthly file   *)
(* is passed to repartition_with_duckdb only if its download returned True *)
(* in this run, or it was skipped as existing and is a complete file; a    *)
(* download that returned False leaves no partly written file; and no      *)
(* partly written file is skipped as already downloaded.                   *)
(***************************************************************************)
C29_OnlyCompleteFiles ==
    /\ \A m \in dl.passed :
          \/ dl.task[m] = "true"
          \/ dl.task[m] = "skipped" /\ dl.start_files[m] = "complete"
    /\ \A m \in Months : dl.task[m] = "false" => dl.files[m] # "partial"
    /\ \A m \in Months : dl.task[m] = "skipped" => dl.start_files[m] = "complete"

(***************************************************************************)
(* C30  repartition_with_duckdb deletes the monthly file only after the    *)
(* partitioned write has completed and only when keep_monthly is false,    *)
(* and then returns True; whenever it returns False the monthly file is    *)
(* still in place; no other step of the script removes a monthly file.     *)
(***************************************************************************)
C30_DeleteOnlyAfterWrite ==
    /\ [][\A m \in Months :
            (dl.files[m] # "absent" /\ dl'.files[m] = "absent") =>
                /\ dl.phase = "repartition"
                /\ dl.rep[m] = "written"
                /\ m \in dl.partitioned
                /\ ~dl.keep_monthly
                /\ dl'.rep[m] = "true"]_vars
    /\ [][\A m \in Months :
            (dl.rep[m] # "false" /\ dl'.rep[m] = "false") =>
                (dl'.files[m] = dl.files[m] /\ dl.files[m] # "absent")]_vars
    /\ [](\A m \in Months : dl.rep[m] = "false" => dl.files[m] # "absent")

\* one month was repartitioned and its file deleted, the write of the other
\* month failed and its file is in place
C30_Witness ==
    /\ ~dl.keep_monthly
    /\ \E m1, m2 \in Months :
          /\ dl.rep[m1] = "true"
          /\ dl.files[m1] = "absent"
          /\ m1 \in dl.partitioned
          /\ dl.rep[m2] = "false"
          /\ dl.files[m2] = "complete"

====
